---- MODULE Spec2Model ----
(***************************************************************************)
(* DicomStudy (MINTConformance/src/org/nema/medical/mint/DicomStudy.py):   *)
(* the study aggregate built from a directory of DICOM files, its output   *)
(* sink, its lookups, its dump and its tidy, and the command-line main().  *)
(*                                                                         *)
(* A descriptor (DicomInstance) is identified by the position, in walk     *)
(* order, of the file it was built from.  DicomInstance and DataDictionary *)
(* are collaborators whose code is not part of DicomStudy.py; what they do *)
(* is taken from their contract (section 6 of the specification).  The     *)
(* data dictionary reference is only passed through and is not modelled.   *)
(***************************************************************************)
EXTENDS Integers, Sequences, FiniteSets, TLC

\* ------------------------------------------------------------------ bounds
MaxFiles == 2        \* files in the tree a study's life is followed on
MaxTreeFiles == 3    \* files in the tree when construction alone is followed
MaxTidy == 2         \* calls of tidy() on one study
MaxDebug == 1        \* calls of debug() on one study

SopUIDs == {"1.2.3", "1.2.4", "1.2.5"}   \* unique instance identifiers in use
StudyUIDs == {"9.1", "9.2"}              \* parent-study identifiers in use
Paths == {"new1", "new2", "old"}   \* output paths; "old" exists beforehand
DirNames == {"dir", "missing"}

\* ------------------------------------------------------------------- state
VARIABLES
  files,           \* the directory tree under "dir": its files in os.walk order
  fsys,            \* the output paths: whether each exists, and its lines
  stdout,          \* the lines printed to standard output
  handles,         \* the file objects open() has returned, in order
  study,           \* TRUE when the caller holds a constructed DicomStudy
  dcmDir,          \* self.__dcmDir
  instances,       \* self.__instances
  instancesByUID,  \* self.__instancesByUID
  output,          \* self.__output: 0 is None, else an index into handles
  tidyCount,       \* per descriptor, how often its tidy() was invoked
  tidyCalls,       \* how often DicomStudy.tidy() was called
  debugCalls,      \* how often DicomStudy.debug() was called
  lastCall,        \* the last call the caller made, and what came back
  events,          \* the calls that last call made on descriptors and sink, in order
  argv,            \* main(): the parsed command line
  pc               \* the caller's position

vars == <<files, fsys, stdout, handles, study, dcmDir, instances, instancesByUID,
          output, tidyCount, tidyCalls, debugCalls, lastCall, events, argv, pc>>

env == <<files, argv>>
fields == <<dcmDir, instances, instancesByUID, output>>

\* ------------------------------------------------- the collaborators' files
\* A file of the tree: "other" fails DicomInstance.isDicom; "dicom" passes it
\* and builds a descriptor; "malformed" passes it and DicomInstance() raises.
OtherFile == [kind |-> "other", sop |-> "", study |-> ""]
MalformedFile == [kind |-> "malformed", sop |-> "", study |-> ""]
DicomFiles == [kind : {"dicom"}, sop : SopUIDs, study : StudyUIDs]
FileKinds == {OtherFile, MalformedFile} \cup DicomFiles

\* The directory trees of at most max files, as their files in walk order.
TreesOver(kinds, max) == UNION {[1..n -> kinds] : n \in 0..max}
Trees == TreesOver(FileKinds, MaxTreeFiles)

\* The trees the life of a study is followed on: the two recognised files of
\* the specification's scenario, a skipped file and a malformed one.
ScenarioFiles == {[kind |-> "dicom", sop |-> "1.2.3", study |-> "9.1"],
                  [kind |-> "dicom", sop |-> "1.2.4", study |-> "9.2"],
                  OtherFile, MalformedFile}
ScenarioTrees == TreesOver(ScenarioFiles, MaxFiles)

isDicom(f) == f.kind \in {"dicom", "malformed"}
sopInstanceUID(i) == files[i].sop
instanceStudyUID(i) == files[i].study

\* One line of text, as written to a file or to standard output.
Line(text, uid, inst) == [line |-> text, uid |-> uid, inst |-> inst]
OldLine == Line("old", "", 0)
UsageLine == Line("Usage", "", 0)
HeaderLine(uid) == Line("> Study", uid, 0)
InstanceBlock(i) == Line("instance", "", i)

NoFile == [exists |-> FALSE, data |-> <<>>]
OldFile == [exists |-> TRUE, data |-> <<OldLine>>]

EmptyIndex == [u \in {} |-> 0]
NoCall == [op |-> "none", sarg |-> "", narg |-> 0, err |-> "none",
           sval |-> "", nval |-> 0]

\* The call op(sarg, narg) returned (err = "none", with sval or nval) or raised err.
Returned(op, sarg, narg, err, sval, nval) ==
  lastCall' = [op |-> op, sarg |-> sarg, narg |-> narg, err |-> err,
               sval |-> sval, nval |-> nval]

\* One call made on the descriptor built from file `on`, or on the sink (0).
Event(call, on) == [call |-> call, on |-> on]
Made(calls) == events' = calls

\* ------------------------------------------------------------ construction
Indices == [i \in 1..Len(files) |-> i]

\* A walk that keeps every file, recognised or not.
dcmNames_unfiltered == Indices

dcmNames == SelectSeq(Indices, LAMBDA i : isDicom(files[i]))

\* A loop whose index keeps the first descriptor of an identifier.
RECURSIVE readLoop_firstWins(_, _, _)
readLoop_firstWins(names, insts, byUID) ==
  IF names = <<>>
  THEN [instances |-> insts, byUID |-> byUID, err |-> "none"]
  ELSE LET i == Head(names) IN
       IF files[i].kind = "malformed"
       THEN [instances |-> insts, byUID |-> byUID, err |-> "FormatError"]
       ELSE readLoop_firstWins(Tail(names), Append(insts, i),
                               byUID @@ (sopInstanceUID(i) :> i))

\* A loop that passes over a file whose descriptor cannot be built.
RECURSIVE readLoop_skipMalformed(_, _, _)
readLoop_skipMalformed(names, insts, byUID) ==
  IF names = <<>>
  THEN [instances |-> insts, byUID |-> byUID, err |-> "none"]
  ELSE LET i == Head(names) IN
       IF files[i].kind = "malformed"
       THEN readLoop_skipMalformed(Tail(names), insts, byUID)
       ELSE readLoop_skipMalformed(Tail(names), Append(insts, i),
                                   (sopInstanceUID(i) :> i) @@ byUID)

RECURSIVE readLoop(_, _, _)
readLoop(names, insts, byUID) ==
  IF names = <<>>
  THEN [instances |-> insts, byUID |-> byUID, err |-> "none"]
  ELSE LET i == Head(names) IN
       IF files[i].kind = "malformed"
       THEN [instances |-> insts, byUID |-> byUID, err |-> "FormatError"]
       ELSE readLoop(Tail(names), Append(insts, i),
                     (sopInstanceUID(i) :> i) @@ byUID)

read == readLoop(dcmNames, <<>>, EmptyIndex)

construct(dir) ==
  IF dir # "dir"
  THEN /\ Returned("construct", dir, 0, "DirNotFound", "", 0)
       /\ Made(<<>>)
       /\ UNCHANGED <<fields, study>>
  ELSE LET r == read IN
       /\ dcmDir' = dir
       /\ instances' = r.instances
       /\ instancesByUID' = r.byUID
       /\ output' = 0
       /\ study' = (r.err = "none")
       /\ Returned("construct", dir, 0, r.err, "", 0)
       /\ Made(<<>>)

\* ------------------------------------------------------------------ caller
NoArgv == [help |-> FALSE, args |-> <<>>, output |-> ""]
Argvs == [help : BOOLEAN, args : {<<>>} \cup {<<d>> : d \in DirNames},
          output : Paths \cup {""}]

Start(trees, argvs, at) ==
  /\ files \in trees
  /\ fsys = [p \in Paths |-> IF p = "old" THEN OldFile ELSE NoFile]
  /\ stdout = <<>>
  /\ handles = <<>>
  /\ study = FALSE
  /\ dcmDir = ""
  /\ instances = <<>>
  /\ instancesByUID = EmptyIndex
  /\ output = 0
  /\ tidyCount = [i \in 1..Len(files) |-> 0]
  /\ tidyCalls = 0
  /\ debugCalls = 0
  /\ lastCall = NoCall
  /\ events = <<>>
  /\ argv \in argvs
  /\ pc = at

Init == Start(ScenarioTrees, {NoArgv}, "new")
InitBuild == Start(Trees, {NoArgv}, "new")
InitMain == Start(ScenarioTrees, Argvs, "main")

Construct ==
  /\ pc = "new"
  /\ \E dir \in DirNames : construct(dir)
  /\ pc' = IF lastCall'.err = "none" THEN "live" ELSE "failed"
  /\ UNCHANGED <<env, fsys, stdout, handles, tidyCount, tidyCalls, debugCalls>>

\* ------------------------------------------------------------- setOutput
\* open(output, "w"): a new file object; the file exists and is empty.
openFile(path) ==
  /\ handles' = Append(handles, [path |-> path, closed |-> FALSE, closeCalls |-> 0])
  /\ fsys' = [fsys EXCEPT ![path] = [exists |-> TRUE, data |-> <<>>]]
  /\ output' = Len(handles) + 1

\* file.close() on handle h.
closeFile(h) ==
  handles' = [handles EXCEPT ![h].closed = TRUE, ![h].closeCalls = @ + 1]

\* A setOutput whose empty path detaches the sink.
setOutput_detach(path, openOk) ==
  /\ Made(<<>>)
  /\ IF path = ""
     THEN /\ Returned("setOutput", path, 0, "none", "", 0)
          /\ output' = 0
          /\ UNCHANGED <<handles, fsys>>
     ELSE IF output # 0
     THEN /\ Returned("setOutput", path, 0, "NameError", "", 0)
          /\ UNCHANGED <<output, handles, fsys>>
     ELSE IF fsys[path].exists
     THEN /\ Returned("setOutput", path, 0, "FileExists", "", 0)
          /\ UNCHANGED <<output, handles, fsys>>
     ELSE IF ~openOk
     THEN /\ Returned("setOutput", path, 0, "OpenFailed", "", 0)
          /\ UNCHANGED <<output, handles, fsys>>
     ELSE /\ openFile(path)
          /\ Returned("setOutput", path, 0, "none", "", 0)

\* A setOutput without the guard of line 58: a new file is opened over a sink
\* that stays open.
setOutput_noGuard(path, openOk) ==
  /\ Made(<<>>)
  /\ IF path = ""
     THEN /\ Returned("setOutput", path, 0, "none", "", 0)
          /\ UNCHANGED <<output, handles, fsys>>
     ELSE IF fsys[path].exists
     THEN /\ Returned("setOutput", path, 0, "FileExists", "", 0)
          /\ UNCHANGED <<output, handles, fsys>>
     ELSE IF ~openOk
     THEN /\ Returned("setOutput", path, 0, "OpenFailed", "", 0)
          /\ UNCHANGED <<output, handles, fsys>>
     ELSE /\ openFile(path)
          /\ Returned("setOutput", path, 0, "none", "", 0)

\* Line 58 is `self.__output(close)`: the name close is not defined, so with a
\* sink attached the call raises NameError before anything else happens.
setOutput(path, openOk) ==
  /\ Made(<<>>)
  /\ IF path = ""
     THEN /\ Returned("setOutput", path, 0, "none", "", 0)
          /\ UNCHANGED <<output, handles, fsys>>
     ELSE IF output # 0
     THEN /\ Returned("setOutput", path, 0, "NameError", "", 0)
          /\ UNCHANGED <<output, handles, fsys>>
     ELSE IF fsys[path].exists
     THEN /\ Returned("setOutput", path, 0, "FileExists", "", 0)
          /\ UNCHANGED <<output, handles, fsys>>
     ELSE IF ~openOk
     THEN /\ Returned("setOutput", path, 0, "OpenFailed", "", 0)
          /\ UNCHANGED <<output, handles, fsys>>
     ELSE /\ openFile(path)
          /\ Returned("setOutput", path, 0, "none", "", 0)

\* ------------------------------------------------------------------ tidy
\* failAt = 0: no instance.tidy() raises; failAt = k: the k-th one raises.
tidied(failAt) ==
  {instances[k] : k \in 1..(IF failAt = 0 THEN Len(instances) ELSE failAt)}

\* The instance.tidy() calls one tidy() makes, in order, up to the raising one.
releases(failAt) ==
  [k \in 1..(IF failAt = 0 THEN Len(instances) ELSE failAt) |->
     Event("tidy", instances[k])]

\* A tidy that closes the sink before it releases the descriptors.
tidy_closeFirst(failAt) ==
  /\ tidyCount' = [i \in DOMAIN tidyCount |->
                     IF i \in tidied(failAt) THEN tidyCount[i] + 1 ELSE tidyCount[i]]
  /\ tidyCalls' = tidyCalls + 1
  /\ Returned("tidy", "", failAt, IF failAt # 0 THEN "TidyError" ELSE "none", "", 0)
  /\ IF output # 0
     THEN /\ closeFile(output)
          /\ Made(<<Event("close", 0)>> \o releases(failAt))
     ELSE /\ UNCHANGED handles
          /\ Made(releases(failAt))

tidy(failAt) ==
  /\ tidyCount' = [i \in DOMAIN tidyCount |->
                     IF i \in tidied(failAt) THEN tidyCount[i] + 1 ELSE tidyCount[i]]
  /\ tidyCalls' = tidyCalls + 1
  /\ IF failAt # 0
     THEN /\ Returned("tidy", "", failAt, "TidyError", "", 0)
          /\ Made(releases(failAt))
          /\ UNCHANGED handles
     ELSE /\ Returned("tidy", "", failAt, "none", "", 0)
          /\ IF output # 0
             THEN /\ closeFile(output)
                  /\ Made(Append(releases(failAt), Event("close", 0)))
             ELSE /\ UNCHANGED handles
                  /\ Made(releases(failAt))

\* --------------------------------------------------------------- lookups
numInstances == Len(instances)

\* self.__instances[n]: a Python list index, counted from the end when negative.
instance(n) ==
  IF 0 <= n /\ n < Len(instances)
  THEN [err |-> "none", val |-> instances[n + 1]]
  ELSE IF n < 0 /\ -n <= Len(instances)
  THEN [err |-> "none", val |-> instances[Len(instances) + n + 1]]
  ELSE [err |-> "IndexError", val |-> 0]

\* A study identifier taken from the descriptor discovered last.
studyInstanceUID_last ==
  IF numInstances > 0 THEN instanceStudyUID(instance(numInstances - 1).val) ELSE ""

\* A study identifier that is the first descriptor's own unique identifier.
studyInstanceUID_sop ==
  IF numInstances > 0 THEN sopInstanceUID(instance(0).val) ELSE ""

studyInstanceUID ==
  IF numInstances > 0 THEN instanceStudyUID(instance(0).val) ELSE ""

instanceByUID(sopUID) ==
  IF sopUID \in DOMAIN instancesByUID
  THEN [err |-> "none", val |-> instancesByUID[sopUID]]
  ELSE [err |-> "KeyError", val |-> 0]

\* ----------------------------------------------------------------- debug
\* The blocks instance.debug(sink) writes before the failAt-th one raises.
RECURSIVE blocks(_, _)
blocks(n, failAt) ==
  IF n > numInstances \/ n = failAt THEN <<>>
  ELSE <<InstanceBlock(instance(n - 1).val)>> \o blocks(n + 1, failAt)

\* The instance.debug(sink) calls one debug() makes, in order, up to the
\* raising one.
dumps(failAt) ==
  [k \in 1..(IF failAt = 0 THEN numInstances ELSE failAt) |->
     Event("debug", instance(k - 1).val)]

\* A debug whose header always goes to standard output.
debug_headerToStdout(failAt) ==
  /\ debugCalls' = debugCalls + 1
  /\ Made(<<Event("header", 0)>> \o dumps(failAt))
  /\ Returned("debug", "", failAt, IF failAt = 0 THEN "none" ELSE "DebugError", "", 0)
  /\ IF output = 0 \/ handles[output].closed
     THEN /\ stdout' = stdout \o <<HeaderLine(studyInstanceUID)>> \o blocks(1, failAt)
          /\ UNCHANGED fsys
     ELSE /\ stdout' = Append(stdout, HeaderLine(studyInstanceUID))
          /\ fsys' = [fsys EXCEPT ![handles[output].path].data =
                         @ \o blocks(1, failAt)]

debug(failAt) ==
  /\ debugCalls' = debugCalls + 1
  /\ IF output # 0 /\ handles[output].closed
     THEN Made(<<Event("header", 0)>>)
     ELSE Made(<<Event("header", 0)>> \o dumps(failAt))
  /\ IF output = 0
     THEN /\ stdout' = stdout \o <<HeaderLine(studyInstanceUID)>> \o blocks(1, failAt)
          /\ UNCHANGED fsys
          /\ Returned("debug", "", failAt,
                      IF failAt = 0 THEN "none" ELSE "DebugError", "", 0)
     ELSE IF handles[output].closed
     THEN /\ UNCHANGED <<stdout, fsys>>
          /\ Returned("debug", "", failAt, "ValueError", "", 0)
     ELSE /\ fsys' = [fsys EXCEPT ![handles[output].path].data =
                         @ \o <<HeaderLine(studyInstanceUID)>> \o blocks(1, failAt)]
          /\ UNCHANGED stdout
          /\ Returned("debug", "", failAt,
                      IF failAt = 0 THEN "none" ELSE "DebugError", "", 0)

\* ------------------------------------------------- a caller of the class
SetOutput ==
  /\ pc = "live"
  /\ \E path \in Paths \cup {""}, openOk \in BOOLEAN : setOutput(path, openOk)
  /\ UNCHANGED <<env, stdout, study, dcmDir, instances, instancesByUID,
                 tidyCount, tidyCalls, debugCalls, pc>>

\* A tidy after which the study has forgotten its descriptors.
Tidy_dropsInstances ==
  /\ pc = "live"
  /\ tidyCalls < MaxTidy
  /\ \E failAt \in 0..Len(instances) : tidy(failAt)
  /\ instances' = <<>>
  /\ UNCHANGED <<env, fsys, stdout, study, dcmDir, instancesByUID, output,
                 debugCalls, pc>>

Tidy ==
  /\ pc = "live"
  /\ tidyCalls < MaxTidy
  /\ \E failAt \in 0..Len(instances) : tidy(failAt)
  /\ UNCHANGED <<env, fsys, stdout, study, fields, debugCalls, pc>>

Debug ==
  /\ pc = "live"
  /\ debugCalls < MaxDebug
  /\ \E failAt \in 0..Len(instances) : debug(failAt)
  /\ UNCHANGED <<env, handles, study, fields, tidyCount, tidyCalls, pc>>

Next ==
  \/ Construct
  \/ SetOutput
  \/ Tidy
  \/ Debug

Spec == Init /\ [][Next]_vars

\* Construction alone, over every tree.
NextBuild == Construct
BuildSpec == InitBuild /\ [][NextBuild]_vars

\* -------------------------------------------------------------------- main
\* Each step of the try block either goes on or, when the call raises, reaches
\* the except clause, which prints the traceback and exits with status 1.
After(next) == pc' = IF lastCall'.err = "none" THEN next ELSE "exit1"

MainUsage ==
  /\ pc = "main"
  /\ argv.help \/ Len(argv.args) < 1
  /\ stdout' = Append(stdout, UsageLine)
  /\ pc' = "exit1"
  /\ UNCHANGED <<env, fsys, handles, study, fields, tidyCount, tidyCalls,
                 debugCalls, lastCall, events>>

MainConstruct ==
  /\ pc = "main"
  /\ ~(argv.help \/ Len(argv.args) < 1)
  /\ construct(argv.args[1])
  /\ After("main_setOutput")
  /\ UNCHANGED <<env, fsys, stdout, handles, tidyCount, tidyCalls, debugCalls>>

MainSetOutput ==
  /\ pc = "main_setOutput"
  /\ \E openOk \in BOOLEAN : setOutput(argv.output, openOk)
  /\ After("main_debug")
  /\ UNCHANGED <<env, stdout, study, dcmDir, instances, instancesByUID,
                 tidyCount, tidyCalls, debugCalls>>

MainDebug ==
  /\ pc = "main_debug"
  /\ \E failAt \in 0..Len(instances) : debug(failAt)
  /\ After("main_tidy")
  /\ UNCHANGED <<env, handles, study, fields, tidyCount, tidyCalls>>

MainTidy ==
  /\ pc = "main_tidy"
  /\ \E failAt \in 0..Len(instances) : tidy(failAt)
  /\ After("exit0")
  /\ UNCHANGED <<env, fsys, stdout, study, fields, debugCalls>>

NextMain ==
  \/ MainUsage
  \/ MainConstruct
  \/ MainSetOutput
  \/ MainDebug
  \/ MainTidy

MainSpec == InitMain /\ [][NextMain]_vars

\* ================================================================= claims
Positions == 1..Len(instances)
Exited == pc \in {"exit0", "exit1"}
Accepted == {i \in 1..Len(files) : isDicom(files[i])}
AcceptedUIDs == {files[i].sop : i \in Accepted}
DistinctIdentifiers ==
  \A i, j \in Accepted : i # j => files[i].sop # files[j].sop
LastWith(uid) ==
  CHOOSE i \in Accepted :
    /\ files[i].sop = uid
    /\ \A j \in Accepted : files[j].sop = uid => j <= i
EmptyPathCall == lastCall.op = "setOutput" /\ lastCall.sarg = ""

\* C1: no descriptor's tidy() is ever invoked a second time, and once a
\* tidy() of the study has returned every descriptor's tidy() has been
\* invoked exactly once.
C1_ReleasedExactlyOnce ==
  study =>
    /\ \A k \in Positions : tidyCount[instances[k]] <= 1
    /\ (lastCall.op = "tidy" /\ lastCall.err = "none")
         => \A k \in Positions : tidyCount[instances[k]] = 1

\* C2: when the release of one descriptor fails during the first tidy(),
\* every other descriptor of the sequence has still been released exactly once.
C2_FailingReleaseSparesTheRest ==
  (study /\ tidyCalls = 1 /\ lastCall.op = "tidy" /\ lastCall.err = "TidyError")
    => \A k \in Positions \ {lastCall.narg} : tidyCount[instances[k]] = 1

\* C3: setOutput(path), path not empty and not existing, called while a sink
\* is attached closes that sink and then attaches the newly opened file (or
\* fails only because open() does).
C3_ReattachClosesOldSink ==
  [][ ( /\ study /\ output # 0
        /\ lastCall'.op = "setOutput"
        /\ lastCall'.sarg \in Paths
        /\ ~fsys[lastCall'.sarg].exists )
      => /\ handles'[output].closed
         /\ \/ lastCall'.err = "OpenFailed"
            \/ /\ lastCall'.err = "none"
               /\ output' \notin {0, output}
               /\ handles'[output'].path = lastCall'.sarg
               /\ ~handles'[output'].closed ]_vars

\* C4: a sink the study opened is never closed twice, and when the run of
\* main() has ended it has been closed exactly once.
C4_SinkClosedExactlyOnce ==
  /\ \A h \in DOMAIN handles : handles[h].closeCalls <= 1
  /\ Exited => \A h \in DOMAIN handles : handles[h].closeCalls = 1

\* C5: once tidy() has been called, debug and setOutput fail with a Closed
\* error and write and open nothing, and every positional or identifier
\* lookup fails with a Closed error.
C5_ClosedAfterTidy ==
  [][ tidyCalls >= 1
      => /\ lastCall'.op \in {"debug", "setOutput"}
            => /\ lastCall'.err = "Closed"
               /\ UNCHANGED <<stdout, fsys, handles>>
         /\ \A n \in -(numInstances + 1)..numInstances : instance(n).err = "Closed"
         /\ \A uid \in SopUIDs : instanceByUID(uid).err = "Closed" ]_vars

\* C6: when the run of main() has ended, every descriptor that was
\* constructed has had its tidy() invoked.
C6_AllReleasedAtExit ==
  Exited => \A k \in Positions : tidyCount[instances[k]] >= 1

\* C7: setOutput on a path that exists fails with the file-exists error and
\* leaves the file, the open files and the study's sink as they were.
C7_ExistingPathRefused ==
  [][ ( /\ study
        /\ lastCall'.op = "setOutput"
        /\ lastCall'.sarg \in Paths
        /\ fsys[lastCall'.sarg].exists )
      => /\ lastCall'.err = "FileExists"
         /\ UNCHANGED <<output, handles, fsys>> ]_vars

\* C8, as claimed: after setOutput("") the sink is unset, and the debug()
\* that follows writes to standard output.
C8_EmptyPathUnsetsSink ==
  [][ /\ (lastCall'.op = "setOutput" /\ lastCall'.sarg = "") => output' = 0
      /\ (EmptyPathCall /\ lastCall'.op = "debug")
           => /\ Len(stdout') > Len(stdout)
              /\ fsys' = fsys ]_vars

\* C8, amended: setOutput("") returns without changing the sink, the open
\* files or the file system; with no sink attached the debug() that follows
\* writes its header to standard output and nothing to any file, and with a
\* sink attached it writes nothing to standard output.
C8_EmptyPathKeepsSink ==
  [][ /\ (lastCall'.op = "setOutput" /\ lastCall'.sarg = "")
           => /\ lastCall'.err = "none"
              /\ UNCHANGED <<output, handles, fsys>>
      /\ (EmptyPathCall /\ lastCall'.op = "debug" /\ output = 0)
           => /\ Len(stdout') > Len(stdout)
              /\ stdout'[Len(stdout) + 1] = HeaderLine(studyInstanceUID)
              /\ fsys' = fsys
      /\ (EmptyPathCall /\ lastCall'.op = "debug" /\ output # 0)
           => stdout' = stdout ]_vars

\* setOutput("") has just returned on a study whose sink is an open file.
C8_Witness ==
  /\ study /\ EmptyPathCall
  /\ output # 0 /\ ~handles[output].closed

\* C9: over a tree whose N recognised files have pairwise distinct
\* identifiers, the constructed study counts N descriptors, the lookup of
\* each of the N identifiers returns the descriptor reporting it, and the
\* lookup of any other identifier fails with KeyError.
C9_DistinctIdentifiersIndexed ==
  (study /\ DistinctIdentifiers)
    => /\ numInstances = Cardinality(Accepted)
       /\ \A uid \in SopUIDs :
            IF uid \in AcceptedUIDs
            THEN /\ instanceByUID(uid).err = "none"
                 /\ instanceByUID(uid).val \in Accepted
                 /\ sopInstanceUID(instanceByUID(uid).val) = uid
            ELSE instanceByUID(uid).err = "KeyError"

\* A study over three files, one of them skipped, the other two recognised
\* with different identifiers.
C9_Witness ==
  /\ study /\ DistinctIdentifiers
  /\ Len(files) = 3 /\ Cardinality(Accepted) = 2

\* C10: the index has one entry per identifier reported, mapped to the
\* descriptor discovered last among those reporting it, and the sequence
\* holds every recognised file once, in walk order.
C10_LastDiscoveredWins ==
  study
    => /\ DOMAIN instancesByUID = AcceptedUIDs
       /\ \A uid \in AcceptedUIDs : instancesByUID[uid] = LastWith(uid)
       /\ numInstances = Cardinality(Accepted)
       /\ \A i \in Accepted : \E k \in Positions : instances[k] = i
       /\ \A k, l \in Positions : k < l => instances[k] < instances[l]

\* A study two of whose descriptors report the same identifier.
C10_Witness ==
  /\ study
  /\ \E i, j \in Accepted : i < j /\ files[i].sop = files[j].sop

FirstAccepted == CHOOSE i \in Accepted : \A j \in Accepted : i <= j
Malformed == {i \in 1..Len(files) : files[i].kind = "malformed"}
FirstMalformed == CHOOSE i \in Malformed : \A j \in Malformed : i <= j

\* C11: instance(n) returns the descriptor at position n of the sequence when
\* 0 <= n < numInstances, and raises IndexError for every other integer n.
C11_GetInRangeOnly ==
  study =>
    \A n \in -(numInstances + 1)..numInstances :
      IF 0 <= n /\ n < numInstances
      THEN instance(n) = [err |-> "none", val |-> instances[n + 1]]
      ELSE instance(n).err = "IndexError"

\* C12: the study identifier is empty when no file was recognised (and the
\* count is then 0), and otherwise is the parent-study identifier of the
\* recognised file that comes first in walk order.
C12_StudyUIDOfFirstDiscovered ==
  study =>
    IF Accepted = {}
    THEN numInstances = 0 /\ studyInstanceUID = ""
    ELSE studyInstanceUID = files[FirstAccepted].study

\* A study of two descriptors or more whose first descriptor reports another
\* parent-study identifier than a later one.
C12_Witness ==
  /\ study
  /\ \E i \in Accepted : i # FirstAccepted /\ files[i].study # files[FirstAccepted].study

\* C13, as claimed: the study identifier of a non-empty study is the unique
\* identifier of its first descriptor, the key that descriptor has in the index.
C13_ReturnsUniqueIdentifier ==
  (study /\ numInstances > 0)
    => /\ studyInstanceUID = sopInstanceUID(instances[1])
       /\ studyInstanceUID \in DOMAIN instancesByUID

\* C13, amended: the study identifier of a non-empty study is the parent-study
\* identifier the first descriptor of the sequence reports; the key under which
\* that descriptor was inserted into the index is its unique identifier.
C13_ReturnsParentStudyIdentifier ==
  (study /\ numInstances > 0)
    => /\ studyInstanceUID = files[instances[1]].study
       /\ files[instances[1]].sop \in DOMAIN instancesByUID

\* A non-empty study whose identifier is not a key of its index.
C13_Witness ==
  /\ study /\ numInstances > 0
  /\ studyInstanceUID \notin DOMAIN instancesByUID

\* C14: construction over a missing directory fails with the directory error
\* and builds nothing; construction over a tree with a malformed file fails
\* with FormatError, having built descriptors for exactly the recognised files
\* before the first malformed one; and after a failed construction the caller
\* holds no study.
C14_ConstructionAllOrNothing ==
  lastCall.op = "construct" =>
    /\ lastCall.sarg = "missing"
         => /\ lastCall.err = "DirNotFound"
            /\ instances = <<>> /\ instancesByUID = EmptyIndex
    /\ (lastCall.sarg = "dir" /\ Malformed # {})
         => /\ lastCall.err = "FormatError"
            /\ {instances[k] : k \in Positions} =
                 {i \in Accepted : i < FirstMalformed}
    /\ (lastCall.sarg = "dir" /\ Malformed = {}) => lastCall.err = "none"
    /\ study <=> lastCall.err = "none"
    /\ pc = (IF lastCall.err = "none" THEN "live" ELSE "failed")

\* A construction that failed on a malformed file lying between two
\* recognised ones.
C14_Witness ==
  /\ lastCall.op = "construct" /\ lastCall.err = "FormatError"
  /\ \E i, j \in Accepted \ Malformed : i < FirstMalformed /\ FirstMalformed < j

InitialFiles == [p \in Paths |-> IF p = "old" THEN OldFile ELSE NoFile]
DumpLines == {"> Study", "instance"}
IsPrefix(a, b) == Len(a) <= Len(b) /\ SubSeq(b, 1, Len(a)) = a
WholeDump ==
  <<HeaderLine(studyInstanceUID)>> \o [k \in Positions |-> InstanceBlock(instances[k])]
Agree ==
  /\ \A uid \in DOMAIN instancesByUID :
       /\ \E k \in Positions : instances[k] = instancesByUID[uid]
       /\ files[instancesByUID[uid]].sop = uid
  /\ \A k \in Positions : files[instances[k]].sop \in DOMAIN instancesByUID
OpenHandles == {h \in DOMAIN handles : ~handles[h].closed}

\* C15: when a run of main() has ended in failure, neither a header line nor
\* a descriptor block has been written to standard output or to a file, and
\* the output paths are as they were before the run.
C15_NoPartialOutput ==
  pc = "exit1" =>
    /\ \A k \in DOMAIN stdout : stdout[k].line \notin DumpLines
    /\ fsys = InitialFiles

\* C16: what one debug() writes goes to one destination, the attached file
\* if a sink is attached and standard output otherwise, and is an initial
\* part of: the header line, then one block per descriptor in sequence
\* order; a debug() that returns has written all of it, having called
\* debug(sink) on every descriptor once, in sequence order.
C16_DumpInOrderToOneSink ==
  [][ lastCall'.op = "debug" =>
      /\ IF output = 0
         THEN /\ fsys' = fsys
              /\ IsPrefix(stdout, stdout')
              /\ IsPrefix(SubSeq(stdout', Len(stdout) + 1, Len(stdout')), WholeDump)
              /\ lastCall'.err = "none" => stdout' = stdout \o WholeDump
         ELSE LET path == handles[output].path IN
              /\ stdout' = stdout
              /\ \A p \in Paths \ {path} : fsys'[p] = fsys[p]
              /\ fsys'[path].exists
              /\ IsPrefix(fsys[path].data, fsys'[path].data)
              /\ IsPrefix(SubSeq(fsys'[path].data, Len(fsys[path].data) + 1,
                                 Len(fsys'[path].data)), WholeDump)
              /\ lastCall'.err = "none"
                   => fsys'[path].data = fsys[path].data \o WholeDump
      /\ lastCall'.err = "none"
           => events' = <<Event("header", 0)>> \o
                        [k \in Positions |-> Event("debug", instances[k])] ]_vars

\* A debug() that returned after writing the header and two blocks to the
\* attached file.
C16_Witness ==
  /\ lastCall.op = "debug" /\ lastCall.err = "none"
  /\ output # 0 /\ numInstances = 2
  /\ Len(fsys[handles[output].path].data) = 3

\* C17: once the study is constructed no call changes its sequence or its
\* index, and the two agree: every index entry is a descriptor of the sequence
\* keyed by its own identifier, and every descriptor's identifier is a key.
C17_SequenceAndIndexFixed ==
  [][ /\ study => UNCHANGED <<instances, instancesByUID>>
      /\ study => Agree
      /\ study' => Agree' ]_vars

\* A study of two descriptors on which setOutput, debug and tidy have all
\* been called.
C17_Witness ==
  /\ study /\ numInstances = 2
  /\ output # 0 /\ debugCalls >= 1 /\ tidyCalls >= 1

\* C18: a study opens at most one file in its life and never has two sinks
\* open; at most one output path is created; construction opens none.
C18_AtMostOneFileOpened ==
  /\ Len(handles) <= 1
  /\ Cardinality(OpenHandles) <= 1
  /\ Cardinality({p \in Paths : fsys[p].exists /\ ~InitialFiles[p].exists}) <= 1
  /\ (pc = "new" \/ lastCall.op = "construct") => handles = <<>>

\* A setOutput on a new path was attempted while the sink was attached and open.
C18_Witness ==
  /\ lastCall.op = "setOutput" /\ lastCall.sarg \in {"new1", "new2"}
  /\ output # 0 /\ ~handles[output].closed
  /\ handles[output].path # lastCall.sarg

\* C19: in one tidy() the sink is closed at most once and as the last call
\* made, after tidy() has been invoked on every descriptor of the sequence;
\* the sink is closed by the call exactly when such a close was made, each
\* descriptor is released as often as the call invoked its tidy(), and with
\* no sink attached nothing is closed.
C19_SinkClosedAfterReleases ==
  [][ lastCall'.op = "tidy" =>
      /\ \A k \in DOMAIN events' :
           events'[k].call = "close"
             => /\ k = Len(events')
                /\ \A p \in Positions :
                     \E j \in 1..(k - 1) : events'[j] = Event("tidy", instances[p])
      /\ (handles' # handles) <=> (\E k \in DOMAIN events' : events'[k].call = "close")
      /\ \A i \in DOMAIN tidyCount :
           tidyCount'[i] - tidyCount[i] =
             Cardinality({k \in DOMAIN events' : events'[k] = Event("tidy", i)})
      /\ output = 0 => handles' = handles ]_vars

\* A tidy() that released two descriptors and then closed the sink.
C19_Witness ==
  /\ lastCall.op = "tidy" /\ lastCall.err = "none"
  /\ numInstances = 2 /\ output # 0
  /\ events = <<Event("tidy", instances[1]), Event("tidy", instances[2]),
               Event("close", 0)>>

====
